---- MODULE Spec2Model ----
(***************************************************************************)
(* Monte Carlo projection engine of the fantasy GM assistant backend:      *)
(* the lineup facade MonteCarloSimulator.simulate_lineup_performance       *)
(* (app/ml/monte_carlo.py), the Redis result cache it uses                 *)
(* (app/services/redis_service.py) and the Celery task                     *)
(* simulate_lineup_task that wraps it (app/workers/simulation_tasks.py).   *)
(*                                                                         *)
(* Optional values are sequences of length 0 or 1 (<<>> is Python's None). *)
(* Collaborators (Redis backend, preprocessor, worker pool) succeed or     *)
(* fail nondeterministically; everything else follows the code.            *)
(*                                                                         *)
(* Specifications: Spec (the lineup facade and its task), TimeoutSpec     *)
(* (Spec with the task's soft time limit), ConcurrentSpec (two facade      *)
(* calls in flight on one simulator), TradeSpec (simulate_trade_impact),   *)
(* EstimatorSpec (calculate_confidence_interval applied to outcome arrays  *)
(* and confidence levels), RedisSpec (one RedisService instance and its    *)
(* backend), StatusSpec (Simulation.update_status) and RateLimiterSpec     *)
(* (RateLimiter behind rate_limit_decorator).                              *)
(***************************************************************************)
EXTENDS Integers, Sequences, FiniteSets, TLC

\* ---------------------------------------------------------------- bounds
MaxLineup == 2      \* longest player_ids list a caller passes
MaxSims == 2        \* largest n_simulations a caller passes
MaxPoints == 1      \* largest trial outcome a chunk produces
MaxCalls == 2       \* facade calls plus task invocations in one behaviour
CpuCount == 2       \* multiprocessing.cpu_count() of the host
MaxSeed == 1        \* largest random_seed a caller's simulator is built with
MaxOutcomes == 3    \* longest outcome array handed to the interval estimator
MaxTrades == 1      \* simulate_trade_impact calls in one behaviour
MaxUpdates == 3     \* update_status calls on one Simulation row

PlayerIds == {"p1", "p2"}

\* lexicographic rank of a player id (Python's str ordering, used by sorted())
StrRank == [p \in PlayerIds |-> IF p = "p1" THEN 1 ELSE 2]

\* ------------------------------------------------------- program constants
SIMULATION_CACHE_PREFIX == "monte_carlo_sim:"
SIMULATION_CACHE_TTL == 3600
CONFIDENCE_INTERVAL == 95        \* 0.95, in hundredths
CACHE_ENABLED == TRUE
CACHE_KEY_PREFIX == "sim_task:"
CACHE_TTL_SECONDS == 3600
SIMULATION_RANDOM_SEED == 42
MAX_PARALLEL_SIMS == 4

Min(a, b) == IF a < b THEN a ELSE b

MAX_PARALLEL_PROCESSES == Min(4, CpuCount)

\* exception classes, by name
SimulationError == "SimulationError"
IntegrationError == "IntegrationError"
ValidationError == "ValidationError"

\* ---------------------------------------------------------------- helpers
None == <<>>
Some(v) == <<v>>

\* all lists over S of length 0..n
RECURSIVE ListsUpTo(_, _)
ListsUpTo(S, n) ==
    IF n = 0 THEN {<<>>}
    ELSE LET shorter == ListsUpTo(S, n - 1)
         IN  shorter \cup {Append(l, x) : l \in {m \in shorter : Len(m) = n - 1}, x \in S}

\* '_'.join(parts)
RECURSIVE Join(_)
Join(parts) ==
    IF Len(parts) = 0 THEN ""
    ELSE IF Len(parts) = 1 THEN parts[1]
    ELSE parts[1] \o "_" \o Join(Tail(parts))

\* insertion of x into a list sorted by StrRank
RECURSIVE InsertSorted(_, _)
InsertSorted(x, l) ==
    IF Len(l) = 0 THEN <<x>>
    ELSE IF StrRank[x] <= StrRank[l[1]] THEN <<x>> \o l
    ELSE <<l[1]>> \o InsertSorted(x, Tail(l))

\* sorted(parts)
RECURSIVE Sorted(_)
Sorted(parts) ==
    IF Len(parts) = 0 THEN <<>>
    ELSE InsertSorted(parts[1], Sorted(Tail(parts)))

\* hashlib.md5(s.encode()).hexdigest(): an injective digest of the string
Md5Hex(s) == "md5(" \o s \o ")"

\* json.dumps / json.loads as used by RedisService.set / RedisService.get
JsonDumps(value) == [json |-> value]
JsonLoads(text) == text.json

\* monte_carlo.py line 109: the facade's cache key
LineupCacheKey(player_ids) ==
    SIMULATION_CACHE_PREFIX \o "lineup:" \o Join(player_ids)

\* simulation_tasks.py generate_cache_key(prefix, *args)
generate_cache_key(prefix, args) ==
    CACHE_KEY_PREFIX \o prefix \o ":" \o Md5Hex(Join(Sorted(args)))

\* multiset of the ids of a list, as a function id -> count
CountOf(l, p) == Cardinality({i \in 1..Len(l) : l[i] = p})
IsPermutation(a, b) ==
    /\ Len(a) = Len(b)
    /\ \A p \in PlayerIds : CountOf(a, p) = CountOf(b, p)
IdSet(l) == {l[i] : i \in 1..Len(l)}


\* ------------------------------------------------------------------ state
VARIABLES
    store,      \* Redis content: key -> [value: serialized text, ttl: seconds]
    healthy,    \* RedisService._healthy of each service object
    cache_enabled, \* MonteCarloSimulator._cache_enabled of the caller's simulator
                \* (every construction in the repository uses the default)
    call,       \* the facade call in progress (pc = "IDLE" when none)
    prev,       \* summary of the last finished request, if any
    task,       \* the simulate_lineup_task invocation in progress
    ncalls,     \* calls and task invocations started so far
    now,        \* datetime.utcnow(), in ticks
    rng,        \* MonteCarloSimulator._rng of each simulator object
    trade,      \* the simulate_trade_impact call in progress
    est,        \* the calculate_confidence_interval call of EstimatorSpec
    other,      \* a second facade call on the same simulator, suspended
    redis,      \* the Redis backend and the last operation of a client
    simulation, \* a Simulation row and the last update_status call on it
    limiter     \* RateLimiter._circuit_breakers and the last request

vars == <<store, healthy, cache_enabled, call, prev, task, ncalls, now,
          rng, trade, est, other, redis, simulation, limiter>>

\* the three RedisService objects: the one of the caller's long-lived
\* simulator, the one of the simulator a task constructs, the task's own
Services == {"sim", "task_sim", "task"}

\* the player_ids lists callers pass: a lineup names a player once
Lineups == {l \in ListsUpTo(PlayerIds, MaxLineup) :
                \A i, j \in 1..Len(l) : l[i] = l[j] => i = j}
NSims == 0..MaxSims
Outcomes == 0..MaxPoints

EmptyStore == [k \in {} |-> 0]

IdleCall ==
    [pc |-> "IDLE", caller |-> "none", player_ids |-> <<>>, n_simulations |-> 0,
     force_refresh |-> FALSE, cache_key |-> "", trace |-> <<>>,
     player_data |-> <<>>, simulation_results |-> <<>>,
     failed |-> {}, cache_read |-> "none", cache_written |-> FALSE,
     raised |-> None, result |-> None, store0 |-> EmptyStore,
     cause |-> "none", chunk_rng |-> <<>>, failed_chunk |-> 0,
     details |-> None]

IdleTask ==
    [pc |-> "IDLE", player_ids |-> <<>>, n_simulations |-> 0,
     force_refresh |-> FALSE, cache_key |-> "", failed |-> {},
     cache_read |-> "none", cache_written |-> FALSE,
     raised |-> None, result |-> None, store0 |-> EmptyStore,
     simulator_raised |-> FALSE, timeout_at |-> "none"]

IdleTrade ==
    [pc |-> "IDLE", players_offered |-> <<>>, players_requested |-> <<>>,
     n_simulations |-> 0, cache_key |-> "", task_key |-> "", simulated |-> {},
     raised |-> None, result |-> None, store0 |-> EmptyStore]

IdleEst ==
    [pc |-> "IDLE", simulation_results |-> <<>>,
     confidence_level |-> CONFIDENCE_INTERVAL, out |-> None]

\* a reachable backend, no RedisError seen, no operation performed yet
IdleRedis == [up |-> TRUE, errored |-> FALSE, last |-> None]

\* Simulation.__init__, and the column default of completed_at
NewSimulation ==
    [status |-> "pending", created_at |-> 0, completed_at |-> None,
     duration_seconds |-> None, error_message |-> None, last |-> None]

\* the endpoints RateLimiter.__init__ configures (two of the five)
Endpoints == {"simulations", "lineups"}

\* RateLimiter.__init__: every rejection rate is 0.0
NewLimiter == [circuit_breakers |-> [e \in Endpoints |-> 0], last |-> None]

\* what is remembered of a finished request (a facade call of a direct
\* caller, or a task invocation): its arguments, key and outcome
Summary(kind, c) ==
    [kind |-> kind, player_ids |-> c.player_ids,
     n_simulations |-> c.n_simulations, force_refresh |-> c.force_refresh,
     cache_key |-> c.cache_key, pc |-> c.pc, failed |-> c.failed,
     raised |-> c.raised, result |-> c.result]

\* the RedisService object a facade call uses
ServiceOf(c) == IF c.caller = "task" THEN "task_sim" ELSE "sim"
\* _cache_enabled of the simulator a facade call runs on
CacheEnabledOf(c) == IF c.caller = "task" THEN CACHE_ENABLED ELSE cache_enabled

\* an exception object: its class and its error_code
Exc(type, code) == [type |-> type, error_code |-> code]

\* what makes preprocess_player_data fail: fewer games on record than
\* min_games (an empty history), or the statistics fetch fails
PreprocessorFailures == {"insufficient_data", "fetch_failed"}

\* the exception raised inside the try block of preprocess_player_data
PreprocessorRaised(failure) ==
    IF failure = "insufficient_data" THEN Exc(ValidationError, 3005)
    ELSE Exc(IntegrationError, 6000)

\* the exception the except clause of preprocess_player_data raises in place
\* of any exception of its try block
PreprocessorHandler(exc) == Exc(IntegrationError, 6005)

\* the exception the except clause of _parallel_simulate raises in place of
\* any exception of starmap
ParallelHandler(exc) == Exc(SimulationError, 3012)

\* a handler that lets the original exception through
FacadeHandler_reraise(exc) == exc

\* the exception the except clause of lines 167-173 raises in place of any
\* exception of the try block
FacadeHandler(exc) == Exc(SimulationError, 3011)

\* the details of the SimulationError of lines 167-173
FacadeDetails(player_ids) == [player_ids |-> player_ids]

\* ------------------------------------------------------------- generator
\* the sample taken as it is
Max_unclamped(a, b) == b

Max(a, b) == IF a > b THEN a ELSE b

Seeds == 0..MaxSeed
Simulators == {"sim", "task_sim"}

\* np.random.default_rng(seed): the state of a generator is its seed and
\* the number of samples drawn from it
default_rng(random_seed) == [seed |-> random_seed, drawn |-> 0]

\* the generator after k more samples
AfterDraws(g, k) == [g EXCEPT !.drawn = @ + k]

\* Generator.normal(mean, std): the sample a generator in state g returns, a
\* fixed function of the state with values in -1..MaxPoints
Normal(g) == ((g.seed + g.drawn) % (MaxPoints + 2)) - 1

\* lines 219-226: one trial, the sum over the players of max(0, sample)
RECURSIVE TrialOutcome(_, _)
TrialOutcome(g, nplayers) ==
    IF nplayers = 0 THEN 0
    ELSE Max(0, Normal(g)) + TrialOutcome(AfterDraws(g, 1), nplayers - 1)

\* _simulate_single_lineup run on a generator in state g
simulate_single_lineup(g, player_data, n_simulations) ==
    [i \in 1..n_simulations |->
        TrialOutcome(AfterDraws(g, (i - 1) * Len(player_data)), Len(player_data))]

\* the generator chunk i runs on: starmap hands the bound method
\* self._simulate_single_lineup to every worker, so every chunk runs on a
\* copy of self._rng as it is when the chunks are submitted
WorkerGenerator(generator, i) == generator

\* n_processes of the simulator a facade call runs on
NProcessesOf(c) ==
    IF c.caller = "task" THEN MAX_PARALLEL_SIMS ELSE MAX_PARALLEL_PROCESSES

Init ==
    /\ store = EmptyStore
    /\ healthy = [s \in Services |-> TRUE]
    /\ cache_enabled = CACHE_ENABLED
    /\ call = IdleCall
    /\ prev = None
    /\ task = IdleTask
    /\ ncalls = 0
    /\ now = 0
    /\ \E seed \in Seeds :
          rng = [s \in Simulators |->
                    IF s = "sim" THEN default_rng(seed)
                    ELSE default_rng(SIMULATION_RANDOM_SEED)]
    /\ trade = IdleTrade
    /\ est = IdleEst
    /\ other = IdleCall
    /\ redis = IdleRedis
    /\ simulation = NewSimulation
    /\ limiter = NewLimiter

\* ------------------------------------------------------------ RedisService

\* RedisService.get(key): the possible outcomes on a service whose _healthy
\* flag is h.  An unhealthy service raises without contacting Redis; a
\* RedisError marks the service unhealthy and raises IntegrationError.
\* (A retry after a RedisError finds the service unhealthy and raises the
\* same IntegrationError, so the outcomes with and without retries agree.)
RedisGet(h, key) ==
    IF ~h THEN {[ok |-> FALSE, healthy |-> h, val |-> None]}
    ELSE {[ok |-> FALSE, healthy |-> FALSE, val |-> None],
          [ok |-> TRUE, healthy |-> h,
           val |-> IF key \in DOMAIN store
                   THEN Some(JsonLoads(store[key].value)) ELSE None]}

\* RedisService.set(key, value, ttl): outcomes, with the store that results
RedisSet(h, key, value, ttl) ==
    IF ~h THEN {[ok |-> FALSE, healthy |-> h, store |-> store]}
    ELSE {[ok |-> FALSE, healthy |-> FALSE, store |-> store],
          [ok |-> TRUE, healthy |-> h,
           store |-> [k \in DOMAIN store \cup {key} |->
                        IF k = key THEN [value |-> JsonDumps(value), ttl |-> ttl]
                        ELSE store[k]]]}

\* ----------------------------------------- simulate_lineup_performance
\* a caller invokes the facade on its long-lived simulator
Call(ids, n, fr) ==
    /\ call.pc = "IDLE"
    /\ task.pc = "IDLE"
    /\ ncalls < MaxCalls
    /\ ncalls' = ncalls + 1
    /\ now' = now + 1
    /\ call' = [IdleCall EXCEPT !.pc = "CACHE_CHECK", !.caller = "direct",
                    !.player_ids = ids, !.n_simulations = n,
                    !.force_refresh = fr,
                    !.cache_key = LineupCacheKey(ids),
                    !.store0 = store]
    /\ UNCHANGED <<store, healthy, cache_enabled, prev, task, rng, trade, est,
                   other, redis, simulation, limiter>>

\* lines 111-115: the cache check
CacheCheck ==
    /\ call.pc = "CACHE_CHECK"
    /\ IF CacheEnabledOf(call) /\ ~call.force_refresh
       THEN \E r \in RedisGet(healthy[ServiceOf(call)], call.cache_key) :
              /\ healthy' = [healthy EXCEPT ![ServiceOf(call)] = r.healthy]
              /\ IF ~r.ok
                 THEN \* the read is outside the try block: the error propagates
                      call' = [call EXCEPT !.pc = "FAILED",
                                  !.trace = <<"CACHE_CHECK", "FAILED">>,
                                  !.cache_read = "failed",
                                  !.failed = {"cache_read"},
                                  !.raised = Some(Exc(IntegrationError, 6000))]
                 ELSE IF r.val # None
                 THEN call' = [call EXCEPT !.pc = "DONE",
                                  !.trace = <<"CACHE_CHECK", "DONE">>,
                                  !.cache_read = "hit",
                                  !.result = r.val]
                 ELSE call' = [call EXCEPT !.pc = "VALIDATING",
                                  !.trace = <<"CACHE_CHECK">>,
                                  !.cache_read = "miss"]
       ELSE /\ call' = [call EXCEPT !.pc = "VALIDATING",
                           !.trace = <<"CACHE_CHECK">>]
            /\ healthy' = healthy
    /\ UNCHANGED <<store, cache_enabled, prev, task, ncalls, now, rng, trade, est,
                   other, redis, simulation, limiter>>

\* lines 118-122: the preprocessing loop; the preprocessor may raise for
\* any player, which ends the loop in the except clause of line 167
Preprocess ==
    /\ call.pc = "VALIDATING"
    /\ \/ call' = [call EXCEPT !.pc = "SAMPLING",
                      !.trace = Append(@, "VALIDATING"),
                      !.player_data = [i \in 1..Len(call.player_ids) |->
                                          [player_id |-> call.player_ids[i]]]]
       \/ \E i \in 1..Len(call.player_ids), f \in PreprocessorFailures :
            call' = [call EXCEPT !.pc = "FAILED",
                        !.trace = @ \o <<"VALIDATING", "FAILED">>,
                        !.player_data = [j \in 1..(i - 1) |->
                                            [player_id |-> call.player_ids[j]]],
                        !.failed = {"preprocessor"},
                        !.cause = f,
                        !.raised = Some(FacadeHandler(
                              PreprocessorHandler(PreprocessorRaised(f)))),
                        !.details = Some(FacadeDetails(call.player_ids))]
    /\ UNCHANGED <<store, healthy, cache_enabled, prev, task, ncalls, now, rng, trade, est,
                   other, redis, simulation, limiter>>

\* lines 125-126: the chunk sizes
SimulationChunks(n_simulations) ==
    [i \in 1..MAX_PARALLEL_PROCESSES |-> n_simulations \div MAX_PARALLEL_PROCESSES]

\* lines 128-132 and _parallel_simulate: every chunk runs on its copy of the
\* simulator's generator, or one of them raises (SimulationError 3013,
\* replaced by 3012 in _parallel_simulate and by 3011 in the except clause of
\* line 167) and starmap returns nothing
Sample ==
    /\ call.pc = "SAMPLING"
    /\ LET chunks == SimulationChunks(call.n_simulations)
           generators == [i \in 1..Len(chunks) |->
                             WorkerGenerator(rng[ServiceOf(call)], i)]
       IN  \/ call' = [call EXCEPT !.pc = "AGGREGATING",
                          !.trace = Append(@, "SAMPLING"),
                          !.chunk_rng = generators,
                          !.simulation_results =
                              [i \in 1..Len(chunks) |->
                                  simulate_single_lineup(generators[i],
                                      call.player_data, chunks[i])]]
           \/ \E k \in 1..Len(chunks) :
                call' = [call EXCEPT !.pc = "FAILED",
                            !.trace = @ \o <<"SAMPLING", "FAILED">>,
                            !.chunk_rng = generators,
                            !.failed = {"chunk"},
                            !.failed_chunk = k,
                            !.raised = Some(FacadeHandler(ParallelHandler(
                                  Exc(SimulationError, 3013)))),
                            !.details = Some(FacadeDetails(call.player_ids))]
    /\ UNCHANGED <<store, healthy, cache_enabled, prev, task, ncalls, now, rng, trade, est,
                   other, redis, simulation, limiter>>

\* ------------------------------------------------------------- statistics
\* np.concatenate
RECURSIVE Concatenate(_)
Concatenate(arrays) ==
    IF Len(arrays) = 0 THEN <<>> ELSE arrays[1] \o Concatenate(Tail(arrays))

RECURSIVE Sum(_)
Sum(a) == IF Len(a) = 0 THEN 0 ELSE a[1] + Sum(Tail(a))

RECURSIVE SumSq(_)
SumSq(a) == IF Len(a) = 0 THEN 0 ELSE a[1] * a[1] + SumSq(Tail(a))

\* floats are exact fractions num/den; den = 0 is NaN (numpy returns NaN,
\* with a warning, for the mean of an empty array)
Frac(num, den) == [num |-> num, den |-> den]

\* np.mean
Mean(a) == Frac(Sum(a), Len(a))

\* the sample form (ddof = 1), which divides by n - 1
StdSquared_ddof1(a) ==
    Frac(Len(a) * SumSq(a) - Sum(a) * Sum(a), Len(a) * (Len(a) - 1))

\* np.std (population form, ddof = 0), kept as its square
StdSquared(a) == Frac(Len(a) * SumSq(a) - Sum(a) * Sum(a), Len(a) * Len(a))

NaN == Frac(0, 0)
IsNaN(x) == x.den = 0

\* comparisons of floats; every comparison with NaN is false
FracLe(x, y) == ~IsNaN(x) /\ ~IsNaN(y) /\ x.num * y.den <= y.num * x.den
FracLt(x, y) == ~IsNaN(x) /\ ~IsNaN(y) /\ x.num * y.den < y.num * x.den
FracEq(x, y) == ~IsNaN(x) /\ ~IsNaN(y) /\ x.num * y.den = y.num * x.den

\* x - y and x + y
FracSub(x, y) ==
    IF IsNaN(x) \/ IsNaN(y) THEN NaN
    ELSE Frac(x.num * y.den - y.num * x.den, x.den * y.den)
FracAdd(x, y) ==
    IF IsNaN(x) \/ IsNaN(y) THEN NaN
    ELSE Frac(x.num * y.den + y.num * x.den, x.den * y.den)

\* np.sqrt of a non-negative integer, rounded down: the r in lo..hi with
\* r * r <= x < (r + 1) * (r + 1)
RECURSIVE SqrtBetween(_, _, _)
SqrtBetween(x, lo, hi) ==
    IF lo = hi THEN lo
    ELSE LET mid == (lo + hi + 1) \div 2
         IN  IF mid * mid <= x THEN SqrtBetween(x, mid, hi)
             ELSE SqrtBetween(x, lo, mid - 1)
Sqrt(x) == SqrtBetween(x, 0, Min(x, 40000))

\* the confidence levels callers pass, in hundredths
ConfidenceLevels == {50, 90, CONFIDENCE_INTERVAL, 99}

\* scipy.stats.norm.ppf(p), p in thousandths, the quantile in hundredths
NormPpf(p) ==
    IF p = 750 THEN 67
    ELSE IF p = 950 THEN 164
    ELSE IF p = 975 THEN 196
    ELSE 258

\* validate_input: the check of the wrapper on the positional arguments
\* (args[1] of the code is args[2] here)
validate_input(args) ==
    IF Len(args) > 1 /\ args[2].type \notin {"list", "ndarray"}
    THEN Some(Exc(SimulationError, 3010))
    ELSE None

\* (mean + margin, mean - margin)
ConfidenceBounds_swapped(simulation_results, confidence_level) ==
    LET mean == Mean(simulation_results)
        var == StdSquared(simulation_results)
    IN  IF IsNaN(mean) \/ IsNaN(var) THEN [lower |-> NaN, upper |-> NaN]
        ELSE LET std_error == Sqrt((var.num * 1000 * 1000)
                                   \div (var.den * Len(simulation_results)))
                 z_score == NormPpf(((100 + confidence_level) * 10) \div 2)
                 margin == Frac((z_score * std_error) \div 100, 1000)
             IN  [lower |-> FracAdd(mean, margin), upper |-> FracSub(mean, margin)]

\* body of calculate_confidence_interval: (mean - margin, mean + margin).
\* std_error and margin are computed in thousandths, rounded down; mean and
\* std of an empty array are NaN, and so are both bounds
ConfidenceBounds(simulation_results, confidence_level) ==
    LET mean == Mean(simulation_results)
        var == StdSquared(simulation_results)
    IN  IF IsNaN(mean) \/ IsNaN(var) THEN [lower |-> NaN, upper |-> NaN]
        ELSE LET std_error == Sqrt((var.num * 1000 * 1000)
                                   \div (var.den * Len(simulation_results)))
                 z_score == NormPpf(((100 + confidence_level) * 10) \div 2)
                 margin == Frac((z_score * std_error) \div 100, 1000)
             IN  [lower |-> FracSub(mean, margin), upper |-> FracAdd(mean, margin)]

\* no keyword argument given
NoKwargs == [confidence_level |-> None]

\* calculate_confidence_interval as decorated, called with the given
\* positional and keyword arguments
calculate_confidence_interval(args, kwargs) ==
    LET rejected == validate_input(args)
        confidence_level ==
            IF Len(args) > 1 THEN args[2].val[1]
            ELSE IF kwargs.confidence_level # None THEN kwargs.confidence_level[1]
            ELSE CONFIDENCE_INTERVAL
    IN  IF rejected # None
        THEN [ok |-> FALSE, raised |-> rejected, val |-> None]
        ELSE [ok |-> TRUE, raised |-> None,
              val |-> Some(ConfidenceBounds(args[1].val, confidence_level))]

\* lines 140-143: the facade passes both arguments positionally
FacadeConfidenceArgs(combined_results) ==
    <<[type |-> "ndarray", val |-> combined_results],
      [type |-> "float", val |-> <<CONFIDENCE_INTERVAL>>]>>

\* lines 145-155
BuildResult(combined_results, ci, n_simulations, timestamp) ==
    [expected_points |-> Mean(combined_results),
     standard_deviation |-> StdSquared(combined_results),
     confidence_interval |-> [lower |-> ci.lower, upper |-> ci.upper,
                              level |-> CONFIDENCE_INTERVAL],
     simulations_run |-> n_simulations,
     timestamp |-> timestamp]

\* lines 134-165: aggregation, confidence interval, result construction and
\* cache write
Aggregate ==
    /\ call.pc = "AGGREGATING"
    /\ LET combined_results == Concatenate(call.simulation_results)
           ci == calculate_confidence_interval(
                     FacadeConfidenceArgs(combined_results), NoKwargs)
       IN  IF ~ci.ok
           THEN /\ call' = [call EXCEPT !.pc = "FAILED",
                               !.trace = @ \o <<"AGGREGATING", "FAILED">>,
                               !.raised = Some(FacadeHandler(ci.raised[1])),
                               !.details = Some(FacadeDetails(call.player_ids))]
                /\ UNCHANGED <<store, healthy>>
           ELSE LET result == BuildResult(combined_results, ci.val[1],
                                          call.n_simulations, now)
                IN  IF CacheEnabledOf(call)
                    THEN \E w \in RedisSet(healthy[ServiceOf(call)], call.cache_key,
                                           result, SIMULATION_CACHE_TTL) :
                           /\ healthy' = [healthy EXCEPT ![ServiceOf(call)] = w.healthy]
                           /\ store' = w.store
                           /\ IF w.ok
                              THEN call' = [call EXCEPT !.pc = "DONE",
                                              !.trace = @ \o <<"AGGREGATING", "CACHE_WRITE", "DONE">>,
                                              !.cache_written = TRUE,
                                              !.result = Some(result)]
                              ELSE call' = [call EXCEPT !.pc = "FAILED",
                                              !.trace = @ \o <<"AGGREGATING", "CACHE_WRITE", "FAILED">>,
                                              !.failed = {"cache_write"},
                                              !.raised = Some(FacadeHandler(
                                                    Exc(IntegrationError, 6000))),
                                              !.details = Some(FacadeDetails(
                                                    call.player_ids))]
                    ELSE /\ call' = [call EXCEPT !.pc = "DONE",
                                        !.trace = @ \o <<"AGGREGATING", "DONE">>,
                                        !.result = Some(result)]
                         /\ UNCHANGED <<store, healthy>>
    /\ UNCHANGED <<cache_enabled, prev, task, ncalls, now, rng, trade, est,
                   other, redis, simulation, limiter>>

\* the call returns or raises to a direct caller
Return ==
    /\ call.pc \in {"DONE", "FAILED"}
    /\ call.caller = "direct"
    /\ prev' = Some(Summary("direct", call))
    /\ call' = IdleCall
    /\ UNCHANGED <<store, healthy, cache_enabled, task, ncalls, now, rng, trade, est,
                   other, redis, simulation, limiter>>

\* ------------------------------------------------- simulate_lineup_task
\* {**result, 'cached': cached, 'timestamp': datetime.utcnow().isoformat()}
TaskResponse(result, cached, timestamp) ==
    [expected_points |-> result.expected_points,
     standard_deviation |-> result.standard_deviation,
     confidence_interval |-> result.confidence_interval,
     simulations_run |-> result.simulations_run,
     cached |-> cached,
     timestamp |-> timestamp]

\* lines 55-57: the task starts, with its key and a RedisService of its own
TaskCall(ids, n, fr) ==
    /\ call.pc = "IDLE"
    /\ task.pc = "IDLE"
    /\ ncalls < MaxCalls
    /\ ncalls' = ncalls + 1
    /\ now' = now + 1
    /\ healthy' = [healthy EXCEPT !["task"] = TRUE]
    /\ task' = [IdleTask EXCEPT !.pc = "CACHE_CHECK",
                    !.player_ids = ids, !.n_simulations = n,
                    !.force_refresh = fr,
                    !.cache_key = generate_cache_key("lineup", ids),
                    !.store0 = store]
    /\ UNCHANGED <<store, cache_enabled, call, prev, rng, trade, est,
                   other, redis, simulation, limiter>>

\* lines 59-67: the task's cache check
TaskCacheCheck ==
    /\ task.pc = "CACHE_CHECK"
    /\ IF ~task.force_refresh
       THEN \E r \in RedisGet(healthy["task"], task.cache_key) :
              /\ healthy' = [healthy EXCEPT !["task"] = r.healthy]
              /\ IF ~r.ok
                 THEN task' = [task EXCEPT !.pc = "FAILED",
                                  !.cache_read = "failed",
                                  !.failed = {"cache_read"},
                                  !.raised = Some(Exc(IntegrationError, 6000))]
                 ELSE IF r.val # None
                 THEN task' = [task EXCEPT !.pc = "DONE",
                                  !.cache_read = "hit",
                                  !.result = Some(TaskResponse(r.val[1], TRUE, now))]
                 ELSE task' = [task EXCEPT !.pc = "SIMULATE",
                                  !.cache_read = "miss"]
       ELSE /\ task' = [task EXCEPT !.pc = "SIMULATE"]
            /\ healthy' = healthy
    /\ UNCHANGED <<store, cache_enabled, call, prev, ncalls, now, rng, trade, est,
                   other, redis, simulation, limiter>>

\* lines 69-79: a new simulator (with a new RedisService) is constructed and
\* the facade is called without force_refresh
TaskSimulate ==
    /\ task.pc = "SIMULATE"
    /\ call.pc = "IDLE"
    /\ healthy' = [healthy EXCEPT !["task_sim"] = TRUE]
    /\ call' = [IdleCall EXCEPT !.pc = "CACHE_CHECK", !.caller = "task",
                    !.player_ids = task.player_ids,
                    !.n_simulations = task.n_simulations,
                    !.force_refresh = FALSE,
                    !.cache_key = LineupCacheKey(task.player_ids),
                    !.store0 = store]
    /\ task' = [task EXCEPT !.pc = "AWAIT"]
    /\ rng' = [rng EXCEPT !["task_sim"] = default_rng(SIMULATION_RANDOM_SEED)]
    /\ UNCHANGED <<store, cache_enabled, prev, ncalls, now, trade, est,
                   other, redis, simulation, limiter>>

\* an except clause around the simulator call that raises SimulationError
TaskHandler_wrapping(exc) == Some(Exc(SimulationError, 3011))

\* what the task raises when its simulator call raises: the task has no
\* except clause, the exception leaves it as it is
TaskHandler(exc) == Some(exc)

\* lines 76-92: the facade call ends; its exception propagates out of the
\* task, its result is written under the task's key and returned
TaskResume ==
    /\ task.pc = "AWAIT"
    /\ call.pc \in {"DONE", "FAILED"}
    /\ call.caller = "task"
    /\ call' = IdleCall
    /\ now' = now + 1
    /\ IF call.pc = "FAILED"
       THEN /\ task' = [task EXCEPT !.pc = "FAILED",
                           !.failed = call.failed,
                           !.simulator_raised = TRUE,
                           !.raised = TaskHandler(call.raised[1])]
            /\ UNCHANGED <<store, healthy>>
       ELSE \E w \in RedisSet(healthy["task"], task.cache_key,
                              call.result[1], CACHE_TTL_SECONDS) :
              /\ healthy' = [healthy EXCEPT !["task"] = w.healthy]
              /\ store' = w.store
              /\ IF w.ok
                 THEN task' = [task EXCEPT !.pc = "DONE",
                                  !.cache_written = TRUE,
                                  !.result = Some(TaskResponse(call.result[1],
                                                               FALSE, now'))]
                 ELSE task' = [task EXCEPT !.pc = "FAILED",
                                  !.failed = {"cache_write"},
                                  !.raised = Some(Exc(IntegrationError, 6000))]
    /\ UNCHANGED <<cache_enabled, prev, ncalls, rng, trade, est,
                   other, redis, simulation, limiter>>

\* the task returns or raises to its caller
TaskReturn ==
    /\ task.pc \in {"DONE", "FAILED"}
    /\ prev' = Some(Summary("task", task))
    /\ task' = IdleTask
    /\ healthy' = [healthy EXCEPT !["task"] = TRUE, !["task_sim"] = TRUE]
    /\ UNCHANGED <<store, cache_enabled, call, ncalls, now, rng, trade, est,
                   other, redis, simulation, limiter>>

\* ------------------------------------------- RedisService, one instance
\* keys and values a client of the service passes
RedisKeys == {"k1", "k2"}
RedisValues == {1, 2}

\* a service that reconnects: an unhealthy instance tries the backend again
Attempt_reconnecting(h, up) ==
    IF up
    THEN [contacted |-> TRUE, raised |-> None, healthy |-> TRUE]
    ELSE [contacted |-> TRUE, raised |-> Some(Exc(IntegrationError, 6000)),
          healthy |-> FALSE]

\* what get, set and delete have in common (lines 109-126, 149-166,
\* 186-202), on an instance whose _healthy is h while the backend is
\* reachable or not: an unhealthy instance raises before it uses the client;
\* a RedisError from the client sets _healthy to False and is raised as
\* IntegrationError; nothing sets _healthy to True
Attempt(h, up) ==
    IF ~h
    THEN [contacted |-> FALSE, raised |-> Some(Exc(IntegrationError, 6000)),
          healthy |-> h]
    ELSE IF ~up
    THEN [contacted |-> TRUE, raised |-> Some(Exc(IntegrationError, 6000)),
          healthy |-> FALSE]
    ELSE [contacted |-> TRUE, raised |-> None, healthy |-> h]

\* the Redis server becomes unreachable, or reachable again
BackendDown ==
    /\ redis.up
    /\ redis' = [redis EXCEPT !.up = FALSE]
    /\ UNCHANGED <<store, healthy, cache_enabled, call, prev, task, ncalls, now,
                   rng, trade, est, other, simulation, limiter>>

BackendUp ==
    /\ ~redis.up
    /\ redis' = [redis EXCEPT !.up = TRUE]
    /\ UNCHANGED <<store, healthy, cache_enabled, call, prev, task, ncalls, now,
                   rng, trade, est, other, simulation, limiter>>

\* the record of one attempt of an operation; value is what a get returned
Attempted(op, key, a, value) ==
    [redis EXCEPT !.errored = redis.errored \/ (a.contacted /\ a.raised # None),
                  !.last = Some([op |-> op, key |-> key,
                                 healthy_before |-> healthy["sim"],
                                 up |-> redis.up,
                                 contacted |-> a.contacted,
                                 raised |-> a.raised,
                                 value |-> value,
                                 store_before |-> store])]

\* one attempt of RedisService.get(key), lines 91-126
ClientGet(key) ==
    LET a == Attempt(healthy["sim"], redis.up)
    IN  /\ redis' = Attempted("get", key, a,
                              IF a.raised = None /\ key \in DOMAIN store
                              THEN Some(JsonLoads(store[key].value))
                              ELSE None)
        /\ healthy' = [healthy EXCEPT !["sim"] = a.healthy]
        /\ UNCHANGED <<store, cache_enabled, call, prev, task, ncalls, now, rng,
                       trade, est, other, simulation, limiter>>

\* one attempt of RedisService.set(key, value, ttl), lines 128-166
ClientSet(key, value) ==
    LET a == Attempt(healthy["sim"], redis.up)
    IN  /\ redis' = Attempted("set", key, a, None)
        /\ healthy' = [healthy EXCEPT !["sim"] = a.healthy]
        /\ store' = IF a.raised = None
                    THEN [k \in DOMAIN store \cup {key} |->
                             IF k = key
                             THEN [value |-> JsonDumps(value),
                                   ttl |-> CACHE_TTL_SECONDS]
                             ELSE store[k]]
                    ELSE store
        /\ UNCHANGED <<cache_enabled, call, prev, task, ncalls, now, rng,
                       trade, est, other, simulation, limiter>>

\* one attempt of RedisService.delete(key), lines 168-202
ClientDelete(key) ==
    LET a == Attempt(healthy["sim"], redis.up)
    IN  /\ redis' = Attempted("delete", key, a, None)
        /\ healthy' = [healthy EXCEPT !["sim"] = a.healthy]
        /\ store' = IF a.raised = None
                    THEN [k \in DOMAIN store \ {key} |-> store[k]]
                    ELSE store
        /\ UNCHANGED <<cache_enabled, call, prev, task, ncalls, now, rng,
                       trade, est, other, simulation, limiter>>

\* ------------------------------------------------- Simulation (model)
\* models/simulation.py lines 9-15: the values of SIMULATION_STATUS
SIMULATION_STATUS == {"pending", "running", "completed", "failed"}

\* the new_status arguments callers pass, one of them not a status
NewStatuses == SIMULATION_STATUS \cup {"cancelled"}

\* line 131: the length error_message is truncated to
ERROR_MESSAGE_LENGTH == 500

\* the error_message arguments, a message being modelled by its length:
\* none, the empty string, a short one, one longer than the column
ErrorMessages == {None, Some(0), Some(3), Some(ERROR_MESSAGE_LENGTH + 1)}

ValueError == "ValueError"

\* the four columns update_status assigns
Columns(sim) ==
    [status |-> sim.status, completed_at |-> sim.completed_at,
     duration_seconds |-> sim.duration_seconds,
     error_message |-> sim.error_message]

\* an update_status that assigns the status before it validates the
\* transition
update_status_assignFirst(sim, new_status, error_message, utcnow) ==
    IF new_status \notin SIMULATION_STATUS
    THEN [sim |-> sim, raised |-> Some([type |-> ValueError])]
    ELSE IF \/ sim.status = "completed" /\ new_status # "failed"
            \/ sim.status = "failed"
    THEN [sim |-> [sim EXCEPT !.status = new_status],
          raised |-> Some([type |-> ValueError])]
    ELSE [sim |-> [sim EXCEPT !.status = new_status], raised |-> None]

\* Simulation.update_status(new_status, error_message), lines 100-131, with
\* utcnow the value datetime.utcnow() returns: the row afterwards and the
\* exception raised, if any
update_status(sim, new_status, error_message, utcnow) ==
    IF new_status \notin SIMULATION_STATUS
    THEN [sim |-> sim, raised |-> Some([type |-> ValueError])]
    ELSE IF sim.status = "completed" /\ new_status # "failed"
    THEN [sim |-> sim, raised |-> Some([type |-> ValueError])]
    ELSE IF sim.status = "failed"
    THEN [sim |-> sim, raised |-> Some([type |-> ValueError])]
    ELSE LET finished == new_status \in {"completed", "failed"}
             given == error_message # None /\ error_message[1] > 0
         IN  [sim |->
                 [sim EXCEPT
                     !.status = new_status,
                     !.completed_at = IF finished THEN Some(utcnow) ELSE @,
                     !.duration_seconds =
                         IF finished THEN Some(utcnow - sim.created_at) ELSE @,
                     !.error_message =
                         IF given
                         THEN Some(Min(error_message[1], ERROR_MESSAGE_LENGTH))
                         ELSE @],
              raised |-> None]

\* a caller updates the status of the row; the clock has advanced
UpdateStatus(new_status, error_message) ==
    /\ now < MaxUpdates
    /\ now' = now + 1
    /\ LET r == update_status(simulation, new_status, error_message, now + 1)
       IN  simulation' =
               [r.sim EXCEPT !.last = Some([before |-> Columns(simulation),
                                            new_status |-> new_status,
                                            error_message |-> error_message,
                                            raised |-> r.raised])]
    /\ UNCHANGED <<store, healthy, cache_enabled, call, prev, task, ncalls, rng,
                   trade, est, other, redis, limiter>>

\* ------------------------------------------------------- RateLimiter
\* rejection rates are floats between 0 and 1 in the code; here they are
\* counted in thousandths, rounded down
\* rate_limiter.py line 195: the 1 of (1 - decay_factor)
One == 1000
\* line 18
CIRCUIT_BREAKER_THRESHOLD == 950
\* line 190
decay_factor == 950

RateLimitError == "RateLimitError"

\* a failure branch that adds the increment without decaying the old rate
update_circuit_breaker_undecayed(current_rate, success) ==
    IF success
    THEN (current_rate * decay_factor) \div One
    ELSE current_rate + (One - decay_factor)

\* lines 180-204: the new rejection rate of an endpoint
update_circuit_breaker(current_rate, success) ==
    IF success
    THEN (current_rate * decay_factor) \div One
    ELSE (current_rate * decay_factor) \div One + (One - decay_factor)

\* lines 84-133, the token bucket step of check_rate_limit: its first
\* statement calls self._redis_service.pipeline(), which RedisService does
\* not define; the AttributeError is caught by the except Exception of line
\* 131 and raised as RateLimitError before any token is read or written
BucketStep == [outcome |-> "error", tokens_consumed |-> FALSE,
               raised |-> Some(Exc(RateLimitError, 4000))]

\* lines 61-133: check_rate_limit on an endpoint whose rejection rate is rate
check_rate_limit(rate) ==
    IF rate >= CIRCUIT_BREAKER_THRESHOLD
    THEN [outcome |-> "circuit_breaker", tokens_consumed |-> FALSE,
          raised |-> Some(Exc(RateLimitError, 4000))]
    ELSE BucketStep

\* lines 135-178: a call of a function wrapped by rate_limit_decorator.
\* Without a request that carries user_id the wrapper raises ValueError
\* before the rate limit is checked.  Otherwise check_rate_limit raises
\* RateLimitError, the wrapper's except RateLimitError clause records a
\* failure and re-raises; the wrapped function is not executed.
DecoratedRequest(endpoint, has_user_id) ==
    LET rate == limiter.circuit_breakers[endpoint]
        c == check_rate_limit(rate)
    IN  /\ limiter' =
               IF ~has_user_id
               THEN [limiter EXCEPT !.last =
                        Some([endpoint |-> endpoint, via |-> "decorator",
                              has_user_id |-> FALSE, open_before |->
                                  rate >= CIRCUIT_BREAKER_THRESHOLD,
                              outcome |-> "no_user", tokens_consumed |-> FALSE,
                              recorded |-> <<>>, executed |-> FALSE,
                              rate_before |-> rate,
                              raised |-> Some([type |-> ValueError])])]
               ELSE [circuit_breakers |->
                        [limiter.circuit_breakers EXCEPT ![endpoint] =
                            update_circuit_breaker(rate, FALSE)],
                     last |->
                        Some([endpoint |-> endpoint, via |-> "decorator",
                              has_user_id |-> TRUE, open_before |->
                                  rate >= CIRCUIT_BREAKER_THRESHOLD,
                              outcome |-> c.outcome,
                              tokens_consumed |-> c.tokens_consumed,
                              recorded |-> <<FALSE>>, executed |-> FALSE,
                              rate_before |-> rate,
                              raised |-> c.raised])]
        /\ UNCHANGED <<store, healthy, cache_enabled, call, prev, task, ncalls,
                       now, rng, trade, est, other, redis, simulation>>

\* middleware.py line 84: the middleware calls check_rate_limit itself and
\* records nothing in the circuit breaker
MiddlewareRequest(endpoint) ==
    LET rate == limiter.circuit_breakers[endpoint]
        c == check_rate_limit(rate)
    IN  /\ limiter' = [limiter EXCEPT !.last =
               Some([endpoint |-> endpoint, via |-> "middleware",
                     has_user_id |-> TRUE,
                     open_before |-> rate >= CIRCUIT_BREAKER_THRESHOLD,
                     outcome |-> c.outcome,
                     tokens_consumed |-> c.tokens_consumed,
                     recorded |-> <<>>, executed |-> FALSE,
                     rate_before |-> rate,
                     raised |-> c.raised])]
        /\ UNCHANGED <<store, healthy, cache_enabled, call, prev, task, ncalls,
                       now, rng, trade, est, other, redis, simulation>>

\* ------------------------------------------------- concurrent callers
\* endpoints/simulations.py lines 28-31: the endpoints share one simulator, so
\* two simulate_lineup_performance coroutines can be in progress on it at
\* once. call is the coroutine that runs, other the one that is suspended;
\* their locals (player_data, chunks, simulation_results) are separate
\* frames, the store and the simulator are shared.
Switch ==
    /\ call.caller # "task"
    /\ other.caller # "task"
    /\ call # other
    /\ call' = other
    /\ other' = call
    /\ UNCHANGED <<store, healthy, cache_enabled, prev, task, ncalls, now, rng,
                   trade, est, redis, simulation, limiter>>

\* ---------------------------------------------------- soft time limit
\* celery.exceptions.SoftTimeLimitExceeded
SoftTimeLimitExceeded == "SoftTimeLimitExceeded"

\* a handler that saves what has been computed so far under the facade's key
TimeoutStore_flush(st, t, c) ==
    IF c.caller = "task" /\ c.simulation_results # <<>>
    THEN [k \in DOMAIN st \cup {c.cache_key} |->
             IF k = c.cache_key
             THEN [value |-> JsonDumps([partial |-> c.simulation_results]),
                   ttl |-> SIMULATION_CACHE_TTL]
             ELSE st[k]]
    ELSE st

\* the store after the time limit fires in task t with facade call c in
\* progress: neither the task nor the facade has a handler or a finally
\* clause for it, nothing is written
TimeoutStore(st, t, c) == st

\* soft_time_limit=30 of simulate_lineup_task: SoftTimeLimitExceeded is
\* raised in the task wherever it is, also inside its facade call, which is
\* abandoned
TaskTimeout ==
    /\ task.pc \in {"CACHE_CHECK", "SIMULATE", "AWAIT"}
    /\ store' = TimeoutStore(store, task, call)
    /\ task' = [task EXCEPT !.pc = "FAILED",
                    !.failed = {"timeout"},
                    !.timeout_at = IF task.pc = "AWAIT" THEN call.pc ELSE task.pc,
                    !.raised = Some([type |-> SoftTimeLimitExceeded])]
    /\ call' = IF call.caller = "task" THEN IdleCall ELSE call
    /\ UNCHANGED <<healthy, cache_enabled, prev, ncalls, now, rng, trade, est,
                   other, redis, simulation, limiter>>

\* ------------------------------------------------ simulate_trade_impact
\* The method is called by analyze_trade_task and by test_simulate_trade_impact
\* but MonteCarloSimulator does not define it; it is modelled from its
\* specification: reject a trade with an empty side, estimate each side
\* independently, derive the comparison, cache it.

\* a trade structurally requires two non-empty sides
TradeRejects_offeredOnly(players_offered, players_requested) ==
    Len(players_offered) = 0

TradeRejects(players_offered, players_requested) ==
    Len(players_offered) = 0 \/ Len(players_requested) = 0

TradeSides == {"offered", "requested"}

TradeCacheKey(players_offered, players_requested) ==
    SIMULATION_CACHE_PREFIX \o "trade:" \o Join(players_offered)
        \o ":" \o Join(players_requested)

\* trade_value: the expected points of the requested side relative to both
TradeValue(offered_points, requested_points) ==
    IF offered_points + requested_points = 0 THEN Frac(1, 2)
    ELSE Frac(requested_points, offered_points + requested_points)

\* simulation_tasks.py line 121: the key under which analyze_trade_task
\* caches the analysis, generate_cache_key('trade', *players_offered,
\* *players_requested)
AnalyzeTradeKey(players_offered, players_requested) ==
    generate_cache_key("trade", players_offered \o players_requested)

TradeCall(offered, requested, n) ==
    /\ trade.pc = "IDLE"
    /\ ncalls < MaxTrades
    /\ ncalls' = ncalls + 1
    /\ now' = now + 1
    /\ trade' = [IdleTrade EXCEPT !.pc = "VALIDATING",
                     !.players_offered = offered,
                     !.players_requested = requested,
                     !.n_simulations = n,
                     !.cache_key = TradeCacheKey(offered, requested),
                     !.task_key = AnalyzeTradeKey(offered, requested),
                     !.store0 = store]
    /\ UNCHANGED <<store, healthy, cache_enabled, call, prev, task, rng, est,
                   other, redis, simulation, limiter>>

TradeValidate ==
    /\ trade.pc = "VALIDATING"
    /\ trade' = IF TradeRejects(trade.players_offered, trade.players_requested)
                THEN [trade EXCEPT !.pc = "FAILED",
                         !.raised = Some(Exc(SimulationError, 3011))]
                ELSE [trade EXCEPT !.pc = "SIMULATING"]
    /\ UNCHANGED <<store, healthy, cache_enabled, call, prev, task, ncalls, now,
                   rng, est,
                   other, redis, simulation, limiter>>

\* one side is estimated (its expected points), or its estimation fails
TradeSimulate ==
    /\ trade.pc = "SIMULATING"
    /\ \E side \in TradeSides \ {x.side : x \in trade.simulated} :
          \/ \E points \in Outcomes :
                trade' = [trade EXCEPT !.simulated =
                              @ \cup {[side |-> side, expected_points |-> points]}]
          \/ trade' = [trade EXCEPT !.pc = "FAILED",
                           !.raised = Some(Exc(SimulationError, 3011))]
    /\ UNCHANGED <<store, healthy, cache_enabled, call, prev, task, ncalls, now,
                   rng, est,
                   other, redis, simulation, limiter>>

\* both sides are estimated: the comparison is derived and cached
TradeDerive ==
    /\ trade.pc = "SIMULATING"
    /\ {x.side : x \in trade.simulated} = TradeSides
    /\ LET points(side) == (CHOOSE x \in trade.simulated : x.side = side).expected_points
           result == [trade_value |-> TradeValue(points("offered"), points("requested")),
                      simulations_run |-> trade.n_simulations,
                      timestamp |-> now]
       IN  /\ trade' = [trade EXCEPT !.pc = "DONE", !.result = Some(result)]
           /\ store' = [k \in DOMAIN store \cup {trade.cache_key} |->
                           IF k = trade.cache_key
                           THEN [value |-> JsonDumps(result),
                                 ttl |-> SIMULATION_CACHE_TTL]
                           ELSE store[k]]
    /\ UNCHANGED <<healthy, cache_enabled, call, prev, task, ncalls, now, rng, est,
                   other, redis, simulation, limiter>>

TradeReturn ==
    /\ trade.pc \in {"DONE", "FAILED"}
    /\ trade' = IdleTrade
    /\ UNCHANGED <<store, healthy, cache_enabled, call, prev, task, ncalls, now,
                   rng, est,
                   other, redis, simulation, limiter>>

\* --------------------------- calculate_confidence_interval, called directly
\* the outcome arrays and confidence levels it is called with, as the tests
\* call it: the array positionally, the level by keyword
OutcomeArrays == ListsUpTo(Outcomes, MaxOutcomes)

EstimatorCall ==
    /\ est.pc = "CALL"
    /\ est' = [est EXCEPT !.pc = "RETURNED",
                  !.out = Some(calculate_confidence_interval(
                      <<[type |-> "ndarray", val |-> est.simulation_results]>>,
                      [confidence_level |-> Some(est.confidence_level)]))]
    /\ UNCHANGED <<store, healthy, cache_enabled, call, prev, task, ncalls, now,
                   rng, trade,
                   other, redis, simulation, limiter>>

\* ------------------------------------------------------------ specification
Next ==
    \/ \E ids \in Lineups, n \in NSims, fr \in BOOLEAN : Call(ids, n, fr)
    \/ CacheCheck
    \/ Preprocess
    \/ Sample
    \/ Aggregate
    \/ Return
    \/ \E ids \in Lineups, n \in NSims, fr \in BOOLEAN : TaskCall(ids, n, fr)
    \/ TaskCacheCheck
    \/ TaskSimulate
    \/ TaskResume
    \/ TaskReturn

Spec == Init /\ [][Next]_vars

TradeNext ==
    \/ \E offered \in Lineups, requested \in Lineups, n \in NSims :
          TradeCall(offered, requested, n)
    \/ TradeValidate
    \/ TradeSimulate
    \/ TradeDerive
    \/ TradeReturn

\* the state after construction of a simulator with the seed of the tasks
SeededInit ==
    /\ store = EmptyStore
    /\ healthy = [s \in Services |-> TRUE]
    /\ cache_enabled = CACHE_ENABLED
    /\ call = IdleCall
    /\ prev = None
    /\ task = IdleTask
    /\ ncalls = 0
    /\ now = 0
    /\ rng = [s \in Simulators |-> default_rng(SIMULATION_RANDOM_SEED)]
    /\ trade = IdleTrade
    /\ other = IdleCall
    /\ redis = IdleRedis
    /\ simulation = NewSimulation
    /\ limiter = NewLimiter

TradeInit == SeededInit /\ est = IdleEst

TradeSpec == TradeInit /\ [][TradeNext]_vars

TimeoutInit == SeededInit /\ est = IdleEst

TimeoutNext == Next \/ TaskTimeout

TimeoutSpec == TimeoutInit /\ [][TimeoutNext]_vars

ConcurrentInit == SeededInit /\ est = IdleEst

ConcurrentNext ==
    \/ \E ids \in Lineups, n \in NSims, fr \in BOOLEAN : Call(ids, n, fr)
    \/ CacheCheck
    \/ Preprocess
    \/ Sample
    \/ Aggregate
    \/ Return
    \/ Switch

ConcurrentSpec == ConcurrentInit /\ [][ConcurrentNext]_vars

RedisInit == SeededInit /\ est = IdleEst

RedisNext ==
    \/ BackendDown
    \/ BackendUp
    \/ \E key \in RedisKeys : ClientGet(key)
    \/ \E key \in RedisKeys, value \in RedisValues : ClientSet(key, value)
    \/ \E key \in RedisKeys : ClientDelete(key)

RedisSpec == RedisInit /\ [][RedisNext]_vars

StatusInit == SeededInit /\ est = IdleEst

StatusNext ==
    \E new_status \in NewStatuses, error_message \in ErrorMessages :
        UpdateStatus(new_status, error_message)

StatusSpec == StatusInit /\ [][StatusNext]_vars

RateLimiterInit == SeededInit /\ est = IdleEst

RateLimiterNext ==
    \/ \E endpoint \in Endpoints, has_user_id \in BOOLEAN :
          DecoratedRequest(endpoint, has_user_id)
    \/ \E endpoint \in Endpoints : MiddlewareRequest(endpoint)

RateLimiterSpec == RateLimiterInit /\ [][RateLimiterNext]_vars

EstimatorInit ==
    /\ SeededInit
    /\ est \in [pc : {"CALL"}, simulation_results : OutcomeArrays,
                 confidence_level : ConfidenceLevels, out : {None}]

EstimatorNext == EstimatorCall

EstimatorSpec == EstimatorInit /\ [][EstimatorNext]_vars

\* ------------------------------------------------------------------ claims
Ended(c) == c.pc \in {"DONE", "FAILED"}
Active(c) == c.pc # "IDLE"
\* non-empty player_ids and a positive trial count
ValidInput(c) == Len(c.player_ids) > 0 /\ c.n_simulations > 0

\* the cache entry under a key, if any
EntryOf(st, key) == IF key \in DOMAIN st THEN Some(st[key]) ELSE None

\* C1: a facade call that fails after the cache check (in preprocessing,
\* chunk execution, aggregation, the confidence interval or the cache write)
\* raises SimulationError, and the cache entry of its key is the one from
\* before the call.
C1_FailureRaisesSimulationErrorAndCachesNothing ==
    (call.pc = "FAILED" /\ call.cache_read # "failed") =>
        /\ call.raised # None
        /\ call.raised[1].type = SimulationError
        /\ EntryOf(store, call.cache_key) = EntryOf(call.store0, call.cache_key)

C1_Witness ==
    /\ call.pc = "FAILED"
    /\ call.cache_read = "miss"
    /\ call.failed = {"preprocessor"}
    /\ call.raised = Some(Exc(SimulationError, 3011))

\* C2: a cache-miss facade call with non-empty player_ids and positive
\* n_simulations in which no collaborator fails ends in DONE with a result.
C2_ValidMissCallCompletes ==
    (/\ Ended(call)
     /\ call.cache_read # "hit"
     /\ ValidInput(call)
     /\ call.failed = {}) =>
        (call.pc = "DONE" /\ call.result # None)

\* C3: a facade call in which no collaborator fails goes through
\* CACHE_CHECK, DONE on a hit and through CACHE_CHECK, VALIDATING, SAMPLING,
\* AGGREGATING, CACHE_WRITE, DONE on a miss; a hit does no preprocessing and
\* no sampling.
C3_StateOrder ==
    (Ended(call) /\ ValidInput(call) /\ call.failed = {} /\ CacheEnabledOf(call)) =>
        IF call.cache_read = "hit"
        THEN /\ call.trace = <<"CACHE_CHECK", "DONE">>
             /\ call.player_data = <<>>
             /\ call.simulation_results = <<>>
        ELSE call.trace = <<"CACHE_CHECK", "VALIDATING", "SAMPLING",
                            "AGGREGATING", "CACHE_WRITE", "DONE">>

\* C4: a failed cache read at the start of a facade call is treated as a
\* miss; the call does not end by raising the cache error.
C4_CacheReadFailureIsMiss ==
    call.cache_read = "failed" =>
        ~(call.pc = "FAILED" /\ call.raised[1].type = IntegrationError)

\* C5: a facade call whose computation succeeds returns its result even
\* when the cache write cannot succeed (the cache service is unhealthy when
\* the call has to write).
C5_CacheWriteFailureStillReturns ==
    (/\ Ended(call)
     /\ CacheEnabledOf(call)
     /\ ValidInput(call)
     /\ call.force_refresh
     /\ ~healthy[ServiceOf(call)]
     /\ call.failed \subseteq {"cache_write"}) =>
        (call.pc = "DONE" /\ call.result # None)

\* C6: two successive requests whose player_ids are permutations of each
\* other use the same cache key, in the facade and in the task.
C6_KeyIndependentOfOrder ==
    /\ (/\ prev # None /\ prev[1].kind = "direct"
        /\ Active(call) /\ call.caller = "direct"
        /\ ValidInput(prev[1]) /\ ValidInput(call)
        /\ prev[1].failed = {}
        /\ IsPermutation(prev[1].player_ids, call.player_ids)) =>
            call.cache_key = prev[1].cache_key
    /\ (/\ prev # None /\ prev[1].kind = "task"
        /\ Active(task)
        /\ ValidInput(prev[1]) /\ ValidInput(task)
        /\ prev[1].failed = {}
        /\ IsPermutation(prev[1].player_ids, task.player_ids)) =>
            task.cache_key = prev[1].cache_key

\* C7: two successive requests use the same cache entry only if they have
\* the same player-id set and the same trial count.
C7_KeyDeterminesTrialCount ==
    /\ (/\ prev # None /\ prev[1].kind = "direct"
        /\ Active(call) /\ call.caller = "direct"
        /\ ValidInput(prev[1]) /\ ValidInput(call)
        /\ prev[1].failed = {}
        /\ call.cache_key = prev[1].cache_key) =>
            /\ call.n_simulations = prev[1].n_simulations
            /\ IdSet(call.player_ids) = IdSet(prev[1].player_ids)
    /\ (/\ prev # None /\ prev[1].kind = "task"
        /\ Active(task)
        /\ ValidInput(prev[1]) /\ ValidInput(task)
        /\ prev[1].failed = {}
        /\ task.cache_key = prev[1].cache_key) =>
            /\ task.n_simulations = prev[1].n_simulations
            /\ IdSet(task.player_ids) = IdSet(prev[1].player_ids)

\* the second of two successive requests has the arguments of the first
SameArguments(p, c) ==
    /\ c.player_ids = p.player_ids
    /\ c.n_simulations = p.n_simulations
    /\ c.force_refresh = p.force_refresh

\* C8: of two successive facade calls with identical arguments,
\* force_refresh = false and a working cache, the first returns a result
\* marked cached = false and the second returns the same expected_points
\* marked cached = true.
C8_SecondIdenticalCallIsCached ==
    (/\ prev # None /\ prev[1].kind = "direct"
     /\ call.caller = "direct" /\ Ended(call)
     /\ SameArguments(prev[1], call) /\ ValidInput(call)
     /\ ~call.force_refresh
     /\ cache_enabled
     /\ prev[1].failed = {} /\ call.failed = {}) =>
        /\ prev[1].pc = "DONE" /\ call.pc = "DONE"
        /\ "cached" \in DOMAIN prev[1].result[1] /\ ~prev[1].result[1].cached
        /\ "cached" \in DOMAIN call.result[1] /\ call.result[1].cached
        /\ call.result[1].expected_points = prev[1].result[1].expected_points

\* C9: of two successive task invocations with identical arguments and
\* force_refresh = false, the second is a cache hit whose response carries
\* the stored expected_points, standard_deviation, confidence_interval,
\* simulations_run and timestamp unchanged.
C9_HitReturnsStoredResult ==
    (/\ prev # None /\ prev[1].kind = "task"
     /\ Ended(task)
     /\ SameArguments(prev[1], task) /\ ValidInput(task)
     /\ ~task.force_refresh
     /\ prev[1].failed = {} /\ task.failed = {}) =>
        /\ task.pc = "DONE" /\ task.cache_read = "hit"
        /\ task.cache_key \in DOMAIN store
        /\ LET stored == JsonLoads(store[task.cache_key].value)
               response == task.result[1]
           IN  /\ response.expected_points = stored.expected_points
               /\ response.standard_deviation = stored.standard_deviation
               /\ response.confidence_interval = stored.confidence_interval
               /\ response.simulations_run = stored.simulations_run
               /\ response.timestamp = stored.timestamp

\* C10: a facade call with force_refresh = true does no cache read,
\* recomputes and leaves its new result in the cache under its key.
C10_ForceRefreshRecomputesAndWrites ==
    (/\ Ended(call)
     /\ ValidInput(call)
     /\ call.force_refresh
     /\ CacheEnabledOf(call)
     /\ healthy[ServiceOf(call)]
     /\ call.failed = {}) =>
        /\ call.cache_read = "none"
        /\ call.pc = "DONE"
        /\ call.result # None
        /\ EntryOf(store, call.cache_key) =
              Some([value |-> JsonDumps(call.result[1]),
                    ttl |-> SIMULATION_CACHE_TTL])

\* C11: a facade call with empty player_ids or n_simulations <= 0, in which
\* no collaborator fails, raises ValidationError before any sampling: no
\* chunk is executed, no result is returned, nothing is written to the cache.
C11_InvalidInputRejectedBeforeSampling ==
    (Ended(call) /\ ~ValidInput(call) /\ call.failed = {}) =>
        /\ call.pc = "FAILED"
        /\ call.raised # None
        /\ call.raised[1].type = ValidationError
        /\ "SAMPLING" \notin {call.trace[i] : i \in 1..Len(call.trace)}
        /\ call.chunk_rng = <<>>
        /\ call.result = None
        /\ store = call.store0

\* C12: a facade call that ends because the history of one of its players
\* is empty raises ValidationError (not IntegrationError, not
\* SimulationError), returns no result and caches nothing.
C12_InsufficientDataStaysValidationError ==
    (Ended(call) /\ ValidInput(call) /\ call.cause = "insufficient_data") =>
        /\ call.pc = "FAILED"
        /\ call.raised # None
        /\ call.raised[1].type = ValidationError
        /\ call.result = None
        /\ store = call.store0

C14_SimulationsRunIsExecutedCount ==
    (call.pc = "AGGREGATING" /\ ValidInput(call)) =>
        LET combined_results == Concatenate(call.simulation_results)
            result == BuildResult(combined_results,
                          ConfidenceBounds(combined_results, CONFIDENCE_INTERVAL),
                          call.n_simulations, now)
        IN  /\ result.simulations_run > 0
            /\ result.simulations_run = Len(combined_results)

\* C15: the chunks executed for n trials on a simulator with w workers are
\* w chunks, chunk i (counted from 1) of size floor(n/w) + 1 for
\* i <= n mod w and floor(n/w) otherwise.
C15_ChunkSplit ==
    (call.pc = "AGGREGATING" /\ ValidInput(call)) =>
        LET n == call.n_simulations
            w == NProcessesOf(call)
        IN  /\ Len(call.simulation_results) = w
            /\ \A i \in 1..Len(call.simulation_results) :
                  Len(call.simulation_results[i]) =
                      (n \div w) + (IF i <= n % w THEN 1 ELSE 0)

\* C16: when the chunks of a valid call have run, each with at least one
\* trial, no two of them started from the same generator state and no two
\* of them produced the same sequence of outcomes.
C16_ChunksHaveOwnGenerators ==
    (/\ call.pc = "AGGREGATING"
     /\ ValidInput(call)
     /\ \A i \in 1..Len(call.simulation_results) :
           Len(call.simulation_results[i]) > 0) =>
        \A i, j \in 1..Len(call.chunk_rng) :
            i # j =>
                /\ call.chunk_rng[i] # call.chunk_rng[j]
                /\ call.simulation_results[i] # call.simulation_results[j]

\* C17: of two successive requests with the same arguments, the cache
\* bypassed and no collaborator failing (two facade calls on one simulator,
\* or two task invocations, each on a new simulator with the same seed),
\* both return a result, with the same expected_points and
\* standard_deviation.
C17_SameSeedSameResult ==
    /\ (/\ prev # None /\ prev[1].kind = "direct"
        /\ call.caller = "direct" /\ Ended(call)
        /\ SameArguments(prev[1], call) /\ ValidInput(call)
        /\ call.force_refresh
        /\ prev[1].failed = {} /\ call.failed = {}) =>
            /\ prev[1].pc = "DONE" /\ call.pc = "DONE"
            /\ call.result[1].expected_points = prev[1].result[1].expected_points
            /\ call.result[1].standard_deviation =
                  prev[1].result[1].standard_deviation
    /\ (/\ prev # None /\ prev[1].kind = "task"
        /\ Ended(task)
        /\ SameArguments(prev[1], task) /\ ValidInput(task)
        /\ task.force_refresh
        /\ prev[1].failed = {} /\ task.failed = {}) =>
            /\ prev[1].pc = "DONE" /\ task.pc = "DONE"
            /\ task.result[1].expected_points = prev[1].result[1].expected_points
            /\ task.result[1].standard_deviation =
                  prev[1].result[1].standard_deviation

\* C18: a facade call in which a chunk raises ends by raising a
\* SimulationError whose details name the failing chunk; no chunk output is
\* aggregated, returned or cached.
C18_ChunkFailureAbortsAndNamesChunk ==
    (Ended(call) /\ ValidInput(call) /\ call.failed = {"chunk"}) =>
        /\ call.pc = "FAILED"
        /\ call.simulation_results = <<>>
        /\ call.result = None
        /\ store = call.store0
        /\ call.raised # None
        /\ call.raised[1].type = SimulationError
        /\ call.details # None
        /\ "chunk" \in DOMAIN call.details[1]
        /\ call.details[1].chunk = call.failed_chunk

Degenerate(a) == Len(a) >= 1 /\ \A i \in 1..Len(a) : a[i] = a[1]

C21_EmptyArrayRaises ==
    (est.pc = "RETURNED" /\ Len(est.simulation_results) = 0) =>
        /\ ~est.out[1].ok
        /\ est.out[1].raised = Some(Exc(SimulationError, 3014))

\* C22: every trial outcome of the chunks of a call is >= 0, also when a
\* sample drawn for it is negative, and so is the mean of the outcomes.
C22_OutcomesNonNegative ==
    call.pc = "AGGREGATING" =>
        /\ \A i \in 1..Len(call.simulation_results) :
              \A k \in 1..Len(call.simulation_results[i]) :
                  call.simulation_results[i][k] >= 0
        /\ LET combined_results == Concatenate(call.simulation_results)
           IN  Len(combined_results) > 0 =>
                   FracLe(Frac(0, 1), Mean(combined_results))

C22_Witness ==
    /\ call.pc = "AGGREGATING"
    /\ Len(call.player_data) = 1
    /\ Len(call.simulation_results[1]) > 0
    /\ Normal(call.chunk_rng[1]) < 0
    /\ call.simulation_results[1][1] = 0

\* a cached value with every field of a facade result
CompleteResult(r) ==
    {"expected_points", "standard_deviation", "confidence_interval",
     "simulations_run", "timestamp"} \subseteq DOMAIN r

\* C23: after the soft time limit has aborted a task invocation, the entry
\* under the task's key and the entry under the facade's key are each the
\* entry from before the invocation or a complete result.
C23_TimeoutLeavesNoPartialResult ==
    (task.pc = "FAILED" /\ task.failed = {"timeout"}) =>
        \A key \in {task.cache_key, LineupCacheKey(task.player_ids)} :
            \/ EntryOf(store, key) = EntryOf(task.store0, key)
            \/ /\ EntryOf(store, key) # None
               /\ CompleteResult(JsonLoads(EntryOf(store, key)[1].value))

C23_Witness ==
    /\ task.pc = "FAILED"
    /\ task.failed = {"timeout"}
    /\ ValidInput(task)
    /\ task.timeout_at = "AGGREGATING"
    /\ store = task.store0

\* C25: when the simulator call inside simulate_lineup_task raises, the task
\* raises SimulationError 3011 and writes nothing to the cache.
C25_TaskRaisesSimulationError ==
    (task.pc = "FAILED" /\ task.simulator_raised /\ ValidInput(task)) =>
        /\ task.raised = Some(Exc(SimulationError, 3011))
        /\ store = task.store0

\* C26: after simulate_lineup_task is called with force_refresh=True, no
\* cache layer is read in that invocation, neither the task's entry nor the
\* entry of the simulator, and a result it returns is marked cached=False.
C26_ForceRefreshReadsNoCache ==
    (/\ task.pc \in {"AWAIT", "DONE", "FAILED"}
     /\ task.force_refresh
     /\ ValidInput(task)) =>
        /\ task.cache_read = "none"
        /\ (call.caller = "task" /\ call.pc # "CACHE_CHECK") =>
               call.cache_read = "none"
        /\ task.pc = "DONE" => ~task.result[1].cached

\* C24: when two facade calls on the same key have run interleaved, with
\* valid input and no collaborator failing, each has returned a complete
\* result and the entry of the key is absent or one complete result.
C24_ConcurrentCallsBothComplete ==
    (/\ Ended(call) /\ Ended(other)
     /\ call.cache_key = other.cache_key
     /\ ValidInput(call) /\ ValidInput(other)
     /\ call.failed = {} /\ other.failed = {}) =>
        /\ \A c \in {call, other} :
              /\ c.pc = "DONE"
              /\ c.result # None
              /\ CompleteResult(c.result[1])
        /\ \/ EntryOf(store, call.cache_key) = None
           \/ CompleteResult(JsonLoads(EntryOf(store, call.cache_key)[1].value))

\* C27: a trade request whose analyze_trade_task key equals the key of the
\* request in progress has the same set of offered players and the same set
\* of requested players.
C27_TradeKeySeparatesSides ==
    (/\ trade.pc # "IDLE"
     /\ trade.players_offered # <<>>
     /\ trade.players_requested # <<>>) =>
        \A players_offered \in Lineups, players_requested \in Lineups :
            AnalyzeTradeKey(players_offered, players_requested) = trade.task_key =>
                /\ IdSet(players_offered) = IdSet(trade.players_offered)
                /\ IdSet(players_requested) = IdSet(trade.players_requested)

\* C28: once a get, set or delete of a RedisService instance has failed with
\* a RedisError the instance is unhealthy for good, and every attempt of an
\* operation on an unhealthy instance raises IntegrationError without
\* contacting Redis and without changing the store, also when the backend is
\* reachable again.
C28_RedisServiceNeverRecovers ==
    /\ redis.errored => ~healthy["sim"]
    /\ (redis.last # None /\ ~redis.last[1].healthy_before) =>
           /\ redis.last[1].raised # None
           /\ redis.last[1].raised[1].type = IntegrationError
           /\ ~redis.last[1].contacted
           /\ store = redis.last[1].store_before
           /\ ~healthy["sim"]

C28_Witness ==
    /\ redis.errored
    /\ redis.last # None
    /\ ~redis.last[1].healthy_before
    /\ redis.last[1].up
    /\ redis.last[1].op = "set"
    /\ redis.last[1].raised = Some(Exc(IntegrationError, 6000))

\* C29: the status of a Simulation is always one of the four statuses; a
\* call of update_status on a failed row raises ValueError; a call accepted
\* on a completed row is the transition to failed; an accepted transition to
\* completed or failed sets completed_at; a call that raises ValueError
\* leaves status, completed_at, duration_seconds and error_message as they
\* were.
C29_StatusMachineClosed ==
    /\ simulation.status \in SIMULATION_STATUS
    /\ simulation.last # None =>
          LET l == simulation.last[1]
          IN  /\ l.before.status = "failed" =>
                     l.raised = Some([type |-> ValueError])
              /\ (l.before.status = "completed" /\ l.raised = None) =>
                     l.new_status = "failed"
              /\ (l.raised = None /\ l.new_status \in {"completed", "failed"}) =>
                     /\ simulation.status = l.new_status
                     /\ simulation.completed_at = Some(now)
              /\ l.raised # None => Columns(simulation) = l.before

C29_Witness ==
    /\ simulation.last # None
    /\ simulation.last[1].before.status = "failed"
    /\ simulation.last[1].before.error_message = Some(ERROR_MESSAGE_LENGTH)
    /\ simulation.last[1].new_status = "running"
    /\ simulation.last[1].raised = Some([type |-> ValueError])
    /\ simulation.status = "failed"

\* C30: the rejection rate of every endpoint stays between 0 and 1, also
\* after one more update_circuit_breaker call of either kind; a request made
\* through rate_limit_decorator while the rate of its endpoint is at or above
\* the threshold is rejected with RateLimitError by the circuit breaker
\* check, consumes no token and is recorded as one failure; and no call made
\* while the rate is at or above the threshold brings it below the threshold.
C30_CircuitBreakerNeverCloses ==
    /\ \A e \in Endpoints :
          /\ limiter.circuit_breakers[e] \in 0..One
          /\ \A success \in BOOLEAN :
                update_circuit_breaker(limiter.circuit_breakers[e], success)
                    \in 0..One
    /\ limiter.last # None =>
          LET l == limiter.last[1]
          IN  l.open_before =>
                  /\ limiter.circuit_breakers[l.endpoint]
                         >= CIRCUIT_BREAKER_THRESHOLD
                  /\ ~l.tokens_consumed
                  /\ ~l.executed
                  /\ (l.via = "decorator" /\ l.has_user_id) =>
                         /\ l.raised = Some(Exc(RateLimitError, 4000))
                         /\ l.outcome = "circuit_breaker"
                         /\ l.recorded = <<FALSE>>

C30_Witness ==
    /\ limiter.last # None
    /\ limiter.last[1].open_before
    /\ limiter.last[1].via = "decorator"
    /\ limiter.last[1].has_user_id
    /\ limiter.last[1].outcome = "circuit_breaker"
    /\ limiter.last[1].rate_before < limiter.circuit_breakers[limiter.last[1].endpoint]
    /\ \E e \in Endpoints : limiter.circuit_breakers[e] < CIRCUIT_BREAKER_THRESHOLD

====
